---- MODULE Spec2Model ----
(***************************************************************************)
(* MQTT agent of source/core_mqtt_agent.c: a bounded queue of operation    *)
(* handles, the pending-operation table, the agent task's dispatch loop    *)
(* and the Init / Enqueue / Stop / ProcessEvent entry points.              *)
(*                                                                         *)
(* Tasks interleave at the granularity of one queue primitive or one       *)
(* protocol-library call: the agent task and the demo task have the same   *)
(* priority (configMAX_PRIORITIES - 1), so the scheduler may time-slice    *)
(* between them anywhere outside the queue's critical sections.            *)
(***************************************************************************)
EXTENDS Integers, Sequences, FiniteSets, TLC

(* ------------------------------ bounds -------------------------------- *)

\* Number of operations the application tasks construct and hand to
\* MQTTAgent_Enqueue in one run.
MaxOps == 3

\* Capacity of the queue and of the pending table.  The source sets 5; the
\* model scales it so that "queue full" and "table full" are reached with
\* MaxOps operations.  Nothing below depends on the value.
MQTT_AGENT_MAX_CONCURRENT_OPERATIONS == 2

(* ----------------------------- constants ------------------------------ *)

MQTTQoS0 == 0

\* Handles that travel through the queue (MQTTOperation_t *).
NULL      == 0
receiveOP == -1      \* &receiveOP, the static default operation
WILD      == -2      \* the value MQTTAgent_Stop puts in the queue: the first
                     \* sizeof(MQTTOperation_t *) bytes of its local struct,
                     \* which the agent task then uses as a pointer

OpIds   == 1 .. MaxOps
Handles == OpIds \cup {receiveOP, WILD}
Slots   == 1 .. MQTT_AGENT_MAX_CONCURRENT_OPERATIONS

\* Packet identifiers the protocol library hands out (16 bit, never 0, in
\* the library; one more than the table can hold is enough here).
PacketIds == 1 .. (MQTT_AGENT_MAX_CONCURRENT_OPERATIONS + 1)

OpTypes == {"MQTT_OP_RECEIVE", "MQTT_OP_PUBLISH", "MQTT_OP_SUBSCRIBE",
            "MQTT_OP_UNSUBSCRIBE", "MQTT_OP_STOP"}

\* What application tasks submit through MQTTAgent_Enqueue.
ProducerTypes == {"MQTT_OP_PUBLISH", "MQTT_OP_SUBSCRIBE",
                  "MQTT_OP_UNSUBSCRIBE", "MQTT_OP_STOP"}

QoSLevels == {0, 1}

\* Return values of the protocol library: success, or a failure.
MQTTStatus == {"MQTTSuccess", "MQTTSendFailed"}

PacketTypes == {"MQTT_PACKET_TYPE_PUBACK", "MQTT_PACKET_TYPE_SUBACK",
                "MQTT_PACKET_TYPE_UNSUBACK", "MQTT_PACKET_TYPE_PUBLISH"}
AckTypes    == {"MQTT_PACKET_TYPE_PUBACK", "MQTT_PACKET_TYPE_SUBACK",
                "MQTT_PACKET_TYPE_UNSUBACK"}

\* pDeserializedInfo->deserializationResult: success, or a failure.
DeserializationResults == {"MQTTSuccess", "MQTTBadResponse"}

Min(S) == CHOOSE x \in S : \A y \in S : x <= y

(* ------------------------------- state -------------------------------- *)

VARIABLES
    agentInit,          \* "none" before MQTTAgent_Init, then its result "ok" / "fail"
    queueState,         \* xOperationsQueue: "null", "live", "deleted"
    xOperationsQueue,   \* content of the queue, head first
    pendingOperations,  \* [Slots -> handle or NULL]
    isAgentRunning,
    pc,                 \* position of the agent task
    pOperation,         \* the handle the agent task holds inside MQTT_ProcessLoop
    ops,                \* the operations of the application tasks
    nextOp,             \* next operation an application task will submit
    stopPc,             \* position of the task calling MQTTAgent_Stop
    wild,               \* what is known about the WILD handle
    stopped,            \* a MQTT_OP_STOP case has been executed
    discarded,          \* handles xQueueReset removed from the queue
    last                \* the step just taken (entry point, arguments, result)

vars == << agentInit, queueState, xOperationsQueue, pendingOperations,
           isAgentRunning, pc, pOperation, ops, nextOp, stopPc, wild,
           stopped, discarded, last >>

NoOp == [ type |-> "NONE", qos |-> 0, dispatched |-> FALSE,
          completions |-> 0, status |-> "NONE", packetIdentifier |-> 0,
          ahead |-> {} ]

\* act: the entry point or case that ran; h: the handle it worked on;
\* id: the packet identifier it used or looked up; ok: what it returned.
Step(act, h, id, ok) == [ act |-> act, h |-> h, id |-> id, ok |-> ok ]

\* The agent task spins with interrupts disabled after a failed
\* configASSERT, and in the fault handler after a fault: nothing runs.
Halted == pc \in {"assert", "fault"}

Init ==
    /\ agentInit = "none"
    /\ queueState = "null"
    /\ xOperationsQueue = << >>
    /\ pendingOperations = [ i \in Slots |-> NULL ]
    /\ isAgentRunning = FALSE
    /\ pc = "none"
    /\ pOperation = NULL
    /\ ops = [ i \in OpIds |-> NoOp ]
    /\ nextOp = 1
    /\ stopPc = "idle"
    /\ wild = [ ahead |-> {}, popped |-> FALSE, packetIdentifier |-> 0 ]
    /\ stopped = FALSE
    /\ discarded = {}
    /\ last = Step("none", NULL, 0, FALSE)

(* ------------------------- queue primitives --------------------------- *)

\* Variant: the queue is created one slot larger than the table.
QueueLength_OneMore == MQTT_AGENT_MAX_CONCURRENT_OPERATIONS + 1

\* uxQueueLength given to xQueueCreate by MQTTAgent_Init.
QueueLength == MQTT_AGENT_MAX_CONCURRENT_OPERATIONS

\* xQueueSend with a finite timeout, seen from its return: the item is
\* appended if a slot is free, the call fails if the queue stayed full.
xQueueSend(q, h) ==
    IF Len(q) < QueueLength
    THEN [ result |-> TRUE, queue |-> Append(q, h) ]
    ELSE [ result |-> FALSE, queue |-> q ]

\* Handles that sit in a queue.
HandlesIn(q) == { q[i] : i \in 1 .. Len(q) }

\* Operations of the application tasks that sit in a queue.
OpsIn(q) == { q[i] : i \in 1 .. Len(q) } \cap OpIds

(* --------------------------- pending table ---------------------------- *)

\* Variant: the operation is always written to the first slot.
addPendingOperation_FirstSlot(table, h) ==
    [ result |-> TRUE, table |-> [ table EXCEPT ![1] = h ] ]

addPendingOperation(table, h) ==
    LET free == { i \in Slots : table[i] = NULL } IN
    IF free = {}
    THEN [ result |-> FALSE, table |-> table ]
    ELSE [ result |-> TRUE, table |-> [ table EXCEPT ![Min(free)] = h ] ]

\* packetIdentifier field of the operation a handle points to.
PacketIdentifierOf(h) ==
    IF h \in OpIds THEN ops[h].packetIdentifier
    ELSE IF h = WILD THEN wild.packetIdentifier
    ELSE 0

\* Variant: the matching slot is returned but not cleared.
getPendingOperation_KeepsSlot(table, packetIdentifier) ==
    LET match == { i \in Slots : /\ table[i] # NULL
                                 /\ PacketIdentifierOf(table[i]) = packetIdentifier } IN
    IF match = {}
    THEN [ pOperation |-> NULL, table |-> table ]
    ELSE [ pOperation |-> table[Min(match)], table |-> table ]

\* Variant: the first occupied slot is taken without comparing identifiers.
getPendingOperation_AnyId(table, packetIdentifier) ==
    LET match == { i \in Slots : table[i] # NULL } IN
    IF match = {}
    THEN [ pOperation |-> NULL, table |-> table ]
    ELSE [ pOperation |-> table[Min(match)],
           table |-> [ table EXCEPT ![Min(match)] = NULL ] ]

getPendingOperation(table, packetIdentifier) ==
    LET match == { i \in Slots : /\ table[i] # NULL
                                 /\ PacketIdentifierOf(table[i]) = packetIdentifier } IN
    IF match = {}
    THEN [ pOperation |-> NULL, table |-> table ]
    ELSE [ pOperation |-> table[Min(match)],
           table |-> [ table EXCEPT ![Min(match)] = NULL ] ]

\* pOperation->callback( pOperation, status ) for an operation of an
\* application task.
Callback(o, h, st) ==
    IF h \in OpIds
    THEN [ o EXCEPT ![h].completions = @ + 1, ![h].status = st ]
    ELSE o

MarkDispatched(o, h) ==
    IF h \in OpIds THEN [ o EXCEPT ![h].dispatched = TRUE ] ELSE o

\* Variant: the identifier is not stored in the operation.
SetPacketIdentifier_Skip(o, h, id) == o

SetPacketIdentifier(o, h, id) ==
    IF h \in OpIds THEN [ o EXCEPT ![h].packetIdentifier = id ] ELSE o

\* MQTT_GetPacketId of the protocol library: an identifier that is not
\* awaiting its acknowledgment (the lowest such one).
MQTT_GetPacketId ==
    LET inUse == { PacketIdentifierOf(pendingOperations[i]) :
                     i \in { j \in Slots : pendingOperations[j] # NULL } }
    IN  { Min(PacketIds \ inUse) }

\* pOperation->type as the agent task reads it.  Through the WILD handle
\* the read returns whatever the addressed memory holds.
TypesOf(h) ==
    IF h = receiveOP THEN {"MQTT_OP_RECEIVE"}
    ELSE IF h = WILD THEN OpTypes \cup {"OTHER"}
    ELSE {ops[h].type}

QosOf(h) == IF h = WILD THEN QoSLevels ELSE {ops[h].qos}

\* Calling ->callback through the WILD handle jumps to an arbitrary
\* address: it faults or comes back.
CallbackFaults(h) == IF h = WILD THEN BOOLEAN ELSE {FALSE}

MarkPopped(h) == IF h = WILD THEN [ wild EXCEPT !.popped = TRUE ] ELSE wild

(* --------------------------- MQTTAgent_Init --------------------------- *)

MQTTAgent_Init(outcome) ==
    /\ agentInit = "none"
    /\ pendingOperations' = [ i \in Slots |-> NULL ]
    /\ IF outcome = "noqueue"
       THEN /\ agentInit' = "fail"
            /\ UNCHANGED << queueState, xOperationsQueue, pc >>
       ELSE /\ queueState' = "live"
            /\ xOperationsQueue' = xQueueSend(<< >>, receiveOP).queue
            /\ IF outcome = "notask"
               THEN agentInit' = "fail" /\ pc' = pc
               ELSE agentInit' = "ok" /\ pc' = "created"
    /\ last' = Step("Init", NULL, 0, outcome = "ok")
    /\ UNCHANGED << isAgentRunning, pOperation, ops, nextOp, stopPc, wild, stopped,
                    discarded >>

(* -------------------------- MQTTAgent_Enqueue ------------------------- *)

\* An application task may use the queue handle between a successful Init
\* and the agent task's vQueueDelete.
QueueUsable == agentInit = "ok" /\ queueState = "live" /\ ~Halted

\* Variant: the operation is sent to the front of the queue.
MQTTAgent_Enqueue_ToFront(type, qos) ==
    /\ QueueUsable
    /\ nextOp \in OpIds
    /\ LET h == nextOp
           ok == Len(xOperationsQueue) < QueueLength IN
       /\ xOperationsQueue' = IF ok THEN << h >> \o xOperationsQueue
                                    ELSE xOperationsQueue
       /\ IF ok
          THEN /\ ops' = [ ops EXCEPT ![h] =
                            [ NoOp EXCEPT !.type = type, !.qos = qos,
                                          !.ahead = IF type = "MQTT_OP_STOP"
                                                    THEN OpsIn(xOperationsQueue)
                                                    ELSE {} ] ]
               /\ nextOp' = nextOp + 1
          ELSE UNCHANGED << ops, nextOp >>
       /\ last' = Step("Enqueue", h, 0, ok)
    /\ UNCHANGED << agentInit, queueState, pendingOperations, isAgentRunning,
                    pc, pOperation, stopPc, wild, stopped,
                    discarded >>

\* The application task offers its next operation; when the call fails the
\* operation stays with the task, which may offer it again.
MQTTAgent_Enqueue(type, qos) ==
    /\ QueueUsable
    /\ nextOp \in OpIds
    /\ LET h == nextOp
           r == xQueueSend(xOperationsQueue, h) IN
       /\ xOperationsQueue' = r.queue
       /\ IF r.result
          THEN /\ ops' = [ ops EXCEPT ![h] =
                            [ NoOp EXCEPT !.type = type, !.qos = qos,
                                          !.ahead = IF type = "MQTT_OP_STOP"
                                                    THEN OpsIn(xOperationsQueue)
                                                    ELSE {} ] ]
               /\ nextOp' = nextOp + 1
          ELSE UNCHANGED << ops, nextOp >>
       /\ last' = Step("Enqueue", h, 0, r.result)
    /\ UNCHANGED << agentInit, queueState, pendingOperations, isAgentRunning,
                    pc, pOperation, stopPc, wild, stopped,
                    discarded >>

(* --------------------------- MQTTAgent_Stop --------------------------- *)

\* xQueueSend( xOperationsQueue, &operation, portMAX_DELAY ): the queue
\* copies sizeof( MQTTOperation_t * ) bytes of the struct itself.
MQTTAgent_Stop_Send ==
    /\ stopPc = "idle"
    /\ QueueUsable
    /\ Len(xOperationsQueue) < QueueLength
    /\ xOperationsQueue' = Append(xOperationsQueue, WILD)
    /\ wild' = [ wild EXCEPT !.ahead = OpsIn(xOperationsQueue) ]
    /\ stopPc' = "poll"
    /\ last' = Step("StopSend", WILD, 0, TRUE)
    /\ UNCHANGED << agentInit, queueState, pendingOperations, isAgentRunning,
                    pc, pOperation, ops, nextOp, stopped,
                    discarded >>

\* while( isAgentRunning == pdTRUE ) vTaskDelay( ... );
MQTTAgent_Stop_Return ==
    /\ stopPc = "poll"
    /\ ~Halted
    /\ isAgentRunning = FALSE
    /\ stopPc' = "returned"
    /\ last' = Step("StopReturn", NULL, 0, TRUE)
    /\ UNCHANGED << agentInit, queueState, xOperationsQueue, pendingOperations,
                    isAgentRunning, pc, pOperation, ops, nextOp, wild, stopped,
                    discarded >>

(* -------------------------- prvMQTTAgentLoop -------------------------- *)

\* isAgentRunning = pdTRUE, on the agent task's first run.
prvMQTTAgentLoop_Start ==
    /\ pc = "created"
    /\ isAgentRunning' = TRUE
    /\ pc' = "loop"
    /\ last' = Step("Start", NULL, 0, TRUE)
    /\ UNCHANGED << agentInit, queueState, xOperationsQueue, pendingOperations,
                    pOperation, ops, nextOp, stopPc, wild, stopped,
                    discarded >>

\* xQueueReceive( xOperationsQueue, &pOperation, 1 ) finds the queue empty
\* for one tick: status != pdTRUE, the else branch leaves the for loop.
xQueueReceive_Timeout ==
    /\ pc = "loop"
    /\ xOperationsQueue = << >>
    /\ pc' = "exiting"
    /\ last' = Step("Timeout", NULL, 0, FALSE)
    /\ UNCHANGED << agentInit, queueState, xOperationsQueue, pendingOperations,
                    isAgentRunning, pOperation, ops, nextOp, stopPc, wild, stopped,
                    discarded >>

\* xQueueReceive returns pdTRUE with the head of the queue.
Popped(h) ==
    /\ pc = "loop"
    /\ xOperationsQueue # << >>
    /\ h = Head(xOperationsQueue)

\* Variant: the receive operation is read from the head of the queue
\* without being removed from it.
Dispatch_Receive_Peek(h) ==
    /\ Popped(h)
    /\ "MQTT_OP_RECEIVE" \in TypesOf(h)
    /\ pOperation' = h
    /\ pc' = "processloop"
    /\ wild' = MarkPopped(h)
    /\ last' = Step("Receive", h, 0, TRUE)
    /\ UNCHANGED << agentInit, queueState, xOperationsQueue, pendingOperations,
                    isAgentRunning, ops, nextOp, stopPc, stopped,
                    discarded >>

\* case MQTT_OP_RECEIVE, up to the call of MQTT_ProcessLoop.
Dispatch_Receive(h) ==
    /\ Popped(h)
    /\ "MQTT_OP_RECEIVE" \in TypesOf(h)
    /\ xOperationsQueue' = Tail(xOperationsQueue)
    /\ pOperation' = h
    /\ pc' = "processloop"
    /\ wild' = MarkPopped(h)
    /\ last' = Step("Receive", h, 0, TRUE)
    /\ UNCHANGED << agentInit, queueState, pendingOperations, isAgentRunning,
                    ops, nextOp, stopPc, stopped,
                    discarded >>

\* MQTT_ProcessLoop returns; configASSERT( mqttStatus == MQTTSuccess );
\* xQueueSend( xOperationsQueue, &pOperation, 1 ), result not looked at.
MQTT_ProcessLoop_Return(mqttStatus) ==
    /\ pc = "processloop"
    /\ IF mqttStatus = "MQTTSuccess"
       THEN LET r == xQueueSend(xOperationsQueue, pOperation) IN
            /\ xOperationsQueue' = r.queue
            /\ pc' = "loop"
            /\ last' = Step("ProcessLoopReturn", pOperation, 0, r.result)
       ELSE /\ pc' = "assert"
            /\ last' = Step("ProcessLoopReturn", pOperation, 0, FALSE)
            /\ UNCHANGED xOperationsQueue
    /\ pOperation' = NULL
    /\ UNCHANGED << agentInit, queueState, pendingOperations, isAgentRunning,
                    ops, nextOp, stopPc, wild, stopped,
                    discarded >>

\* pOperation->callback( pOperation, mqttStatus ); break;
CompleteNow(h, mqttStatus) ==
    \E fault \in CallbackFaults(h) :
        /\ ops' = Callback(MarkDispatched(ops, h), h, mqttStatus)
        /\ pc' = IF fault THEN "fault" ELSE "loop"
        /\ wild' = MarkPopped(h)
        /\ UNCHANGED pendingOperations

\* pOperation->packetIdentifier = packetIdentifier;
\* configASSERT( addPendingOperation( pOperation ) == pdTRUE ); break;
AwaitAck(h, packetIdentifier) ==
    LET r == addPendingOperation(pendingOperations, h) IN
    /\ ops' = SetPacketIdentifier(MarkDispatched(ops, h), h, packetIdentifier)
    /\ wild' = IF h = WILD
               THEN [ wild EXCEPT !.popped = TRUE,
                                  !.packetIdentifier = packetIdentifier ]
               ELSE wild
    /\ pendingOperations' = r.table
    /\ pc' = IF r.result THEN "loop" ELSE "assert"

\* Variant: only the status decides between the callback and the table.
Dispatch_Publish_NoQosCheck(h, qos, packetIdentifier, mqttStatus) ==
    /\ Popped(h)
    /\ "MQTT_OP_PUBLISH" \in TypesOf(h)
    /\ qos \in QosOf(h)
    /\ packetIdentifier \in (IF qos # MQTTQoS0 THEN MQTT_GetPacketId ELSE {0})
    /\ xOperationsQueue' = Tail(xOperationsQueue)
    /\ IF mqttStatus # "MQTTSuccess"
       THEN CompleteNow(h, mqttStatus)
       ELSE AwaitAck(h, packetIdentifier)
    /\ last' = Step("Publish", h, packetIdentifier, mqttStatus = "MQTTSuccess")
    /\ UNCHANGED << agentInit, queueState, isAgentRunning, pOperation,
                    nextOp, stopPc, stopped,
                    discarded >>

\* case MQTT_OP_PUBLISH.  packetIdentifier is what MQTT_GetPacketId
\* returned, or 0 for QoS 0; mqttStatus is what MQTT_Publish returned.
Dispatch_Publish(h, qos, packetIdentifier, mqttStatus) ==
    /\ Popped(h)
    /\ "MQTT_OP_PUBLISH" \in TypesOf(h)
    /\ qos \in QosOf(h)
    /\ packetIdentifier \in (IF qos # MQTTQoS0 THEN MQTT_GetPacketId ELSE {0})
    /\ xOperationsQueue' = Tail(xOperationsQueue)
    /\ IF mqttStatus # "MQTTSuccess" \/ qos = MQTTQoS0
       THEN CompleteNow(h, mqttStatus)
       ELSE AwaitAck(h, packetIdentifier)
    /\ last' = Step("Publish", h, packetIdentifier, mqttStatus = "MQTTSuccess")
    /\ UNCHANGED << agentInit, queueState, isAgentRunning, pOperation,
                    nextOp, stopPc, stopped,
                    discarded >>

\* Variant: the operation waits for an acknowledgment whatever
\* MQTT_Subscribe returned.
Dispatch_Subscribe_NoStatusCheck(h, packetIdentifier, mqttStatus) ==
    /\ Popped(h)
    /\ "MQTT_OP_SUBSCRIBE" \in TypesOf(h)
    /\ packetIdentifier \in MQTT_GetPacketId
    /\ xOperationsQueue' = Tail(xOperationsQueue)
    /\ AwaitAck(h, packetIdentifier)
    /\ last' = Step("Subscribe", h, packetIdentifier, mqttStatus = "MQTTSuccess")
    /\ UNCHANGED << agentInit, queueState, isAgentRunning, pOperation,
                    nextOp, stopPc, stopped,
                    discarded >>

\* case MQTT_OP_SUBSCRIBE.
Dispatch_Subscribe(h, packetIdentifier, mqttStatus) ==
    /\ Popped(h)
    /\ "MQTT_OP_SUBSCRIBE" \in TypesOf(h)
    /\ packetIdentifier \in MQTT_GetPacketId
    /\ xOperationsQueue' = Tail(xOperationsQueue)
    /\ IF mqttStatus # "MQTTSuccess"
       THEN CompleteNow(h, mqttStatus)
       ELSE AwaitAck(h, packetIdentifier)
    /\ last' = Step("Subscribe", h, packetIdentifier, mqttStatus = "MQTTSuccess")
    /\ UNCHANGED << agentInit, queueState, isAgentRunning, pOperation,
                    nextOp, stopPc, stopped,
                    discarded >>

\* case MQTT_OP_UNSUBSCRIBE.
Dispatch_Unsubscribe(h, packetIdentifier, mqttStatus) ==
    /\ Popped(h)
    /\ "MQTT_OP_UNSUBSCRIBE" \in TypesOf(h)
    /\ packetIdentifier \in MQTT_GetPacketId
    /\ xOperationsQueue' = Tail(xOperationsQueue)
    /\ IF mqttStatus # "MQTTSuccess"
       THEN CompleteNow(h, mqttStatus)
       ELSE AwaitAck(h, packetIdentifier)
    /\ last' = Step("Unsubscribe", h, packetIdentifier, mqttStatus = "MQTTSuccess")
    /\ UNCHANGED << agentInit, queueState, isAgentRunning, pOperation,
                    nextOp, stopPc, stopped,
                    discarded >>

\* Variant: the Stop case leaves the queue as it is.
Dispatch_Stop_NoReset(h) ==
    /\ Popped(h)
    /\ "MQTT_OP_STOP" \in TypesOf(h)
    /\ xOperationsQueue' = Tail(xOperationsQueue)
    /\ CompleteNow(h, "MQTTSuccess")
    /\ stopped' = TRUE
    /\ discarded' = discarded \cup HandlesIn(Tail(xOperationsQueue))
    /\ last' = Step("Stop", h, 0, TRUE)
    /\ UNCHANGED << agentInit, queueState, isAgentRunning, pOperation,
                    nextOp, stopPc >>

\* case MQTT_OP_STOP: xQueueReset, the callback, break (out of the switch).
Dispatch_Stop(h) ==
    /\ Popped(h)
    /\ "MQTT_OP_STOP" \in TypesOf(h)
    /\ xOperationsQueue' = << >>
    /\ CompleteNow(h, "MQTTSuccess")
    /\ stopped' = TRUE
    /\ discarded' = discarded \cup HandlesIn(Tail(xOperationsQueue))
    /\ last' = Step("Stop", h, 0, TRUE)
    /\ UNCHANGED << agentInit, queueState, isAgentRunning, pOperation,
                    nextOp, stopPc >>

\* default: break;  Only a type read through the WILD handle gets here.
Dispatch_Default(h) ==
    /\ Popped(h)
    /\ "OTHER" \in TypesOf(h)
    /\ xOperationsQueue' = Tail(xOperationsQueue)
    /\ wild' = MarkPopped(h)
    /\ last' = Step("Default", h, 0, TRUE)
    /\ UNCHANGED << agentInit, queueState, pendingOperations, isAgentRunning,
                    pc, pOperation, ops, nextOp, stopPc, stopped,
                    discarded >>

\* Reading pOperation->type, or anything reached from it, through the WILD
\* handle hits an unmapped address.
Dispatch_Fault ==
    /\ Popped(WILD)
    /\ xOperationsQueue' = Tail(xOperationsQueue)
    /\ wild' = MarkPopped(WILD)
    /\ pc' = "fault"
    /\ last' = Step("Fault", WILD, 0, FALSE)
    /\ UNCHANGED << agentInit, queueState, pendingOperations, isAgentRunning,
                    pOperation, ops, nextOp, stopPc, stopped,
                    discarded >>

\* vQueueDelete( xOperationsQueue ): whatever was sent since the timeout
\* goes with the queue.
prvMQTTAgentLoop_DeleteQueue ==
    /\ pc = "exiting"
    /\ queueState' = "deleted"
    /\ xOperationsQueue' = << >>
    /\ pc' = "deleted"
    /\ last' = Step("DeleteQueue", NULL, 0, TRUE)
    /\ UNCHANGED << agentInit, pendingOperations, isAgentRunning, pOperation,
                    ops, nextOp, stopPc, wild, stopped,
                    discarded >>

\* isAgentRunning = pdFALSE; vTaskDelete( NULL );
prvMQTTAgentLoop_Exit ==
    /\ pc = "deleted"
    /\ isAgentRunning' = FALSE
    /\ pc' = "exited"
    /\ last' = Step("Exit", NULL, 0, TRUE)
    /\ UNCHANGED << agentInit, queueState, xOperationsQueue, pendingOperations,
                    pOperation, ops, nextOp, stopPc, wild, stopped,
                    discarded >>

(* ----------------------- MQTTAgent_ProcessEvent ----------------------- *)

\* Variant: the packet type alone decides, the deserialization result is
\* not looked at.
MQTTAgent_ProcessEvent_NoResultCheck(ptype, packetIdentifier, deserializationResult) ==
    /\ pc = "processloop"
    /\ IF ptype \in AckTypes
       THEN LET r == getPendingOperation(pendingOperations, packetIdentifier) IN
            /\ pendingOperations' = r.table
            /\ IF r.pOperation # NULL
               THEN \E fault \in CallbackFaults(r.pOperation) :
                        /\ ops' = Callback(ops, r.pOperation, "MQTTSuccess")
                        /\ pc' = IF fault THEN "fault" ELSE pc
               ELSE UNCHANGED << ops, pc >>
            /\ last' = Step("ProcessEvent", r.pOperation, packetIdentifier,
                            r.pOperation # NULL)
       ELSE /\ UNCHANGED << pendingOperations, ops, pc >>
            /\ last' = Step("EventIgnored", NULL, packetIdentifier, FALSE)
    /\ UNCHANGED << agentInit, queueState, xOperationsQueue, isAgentRunning,
                    pOperation, nextOp, stopPc, wild, stopped,
                    discarded >>

\* Called by the protocol library for each packet it deserializes inside
\* MQTT_ProcessLoop.
MQTTAgent_ProcessEvent(ptype, packetIdentifier, deserializationResult) ==
    /\ pc = "processloop"
    /\ IF deserializationResult = "MQTTSuccess" /\ ptype \in AckTypes
       THEN LET r == getPendingOperation(pendingOperations, packetIdentifier) IN
            /\ pendingOperations' = r.table
            /\ IF r.pOperation # NULL
               THEN \E fault \in CallbackFaults(r.pOperation) :
                        /\ ops' = Callback(ops, r.pOperation, "MQTTSuccess")
                        /\ pc' = IF fault THEN "fault" ELSE pc
               ELSE UNCHANGED << ops, pc >>
            /\ last' = Step("ProcessEvent", r.pOperation, packetIdentifier,
                            r.pOperation # NULL)
       ELSE /\ UNCHANGED << pendingOperations, ops, pc >>
            /\ last' = Step("EventIgnored", NULL, packetIdentifier, FALSE)
    /\ UNCHANGED << agentInit, queueState, xOperationsQueue, isAgentRunning,
                    pOperation, nextOp, stopPc, wild, stopped,
                    discarded >>

(* --------------------------- specification ---------------------------- *)

\* The agent task, as long as every handle in the queue came from
\* MQTTAgent_Init or MQTTAgent_Enqueue.
Worker ==
    \/ prvMQTTAgentLoop_Start
    \/ xQueueReceive_Timeout
    \/ \E h \in Handles : Dispatch_Receive(h)
    \/ \E mqttStatus \in MQTTStatus : MQTT_ProcessLoop_Return(mqttStatus)
    \/ \E h \in Handles, qos \in QoSLevels, id \in PacketIds \cup {0},
          mqttStatus \in MQTTStatus : Dispatch_Publish(h, qos, id, mqttStatus)
    \/ \E h \in Handles, id \in PacketIds, mqttStatus \in MQTTStatus :
          Dispatch_Subscribe(h, id, mqttStatus)
    \/ \E h \in Handles, id \in PacketIds, mqttStatus \in MQTTStatus :
          Dispatch_Unsubscribe(h, id, mqttStatus)
    \/ \E h \in Handles : Dispatch_Stop(h)
    \/ prvMQTTAgentLoop_DeleteQueue
    \/ prvMQTTAgentLoop_Exit
    \/ \E ptype \in PacketTypes, id \in PacketIds,
          result \in DeserializationResults :
          MQTTAgent_ProcessEvent(ptype, id, result)

\* Application tasks that initialise the agent and submit operations
\* (Stop operations included) through MQTTAgent_Enqueue.
Next ==
    \/ \E outcome \in {"ok", "noqueue", "notask"} : MQTTAgent_Init(outcome)
    \/ \E type \in ProducerTypes :
          \E qos \in (IF type = "MQTT_OP_PUBLISH" THEN QoSLevels ELSE {0}) :
             MQTTAgent_Enqueue(type, qos)
    \/ Worker

Spec == Init /\ [][Next]_vars

\* The same, with one task that calls MQTTAgent_Stop and the agent task's
\* ways of handling the handle it sends.
NextStop ==
    \/ Next
    \/ MQTTAgent_Stop_Send
    \/ MQTTAgent_Stop_Return
    \/ \E h \in Handles : Dispatch_Default(h)
    \/ Dispatch_Fault

SpecStop == Init /\ [][NextStop]_vars

\* The steps the agent task takes by itself (the packets MQTT_ProcessLoop
\* receives are not among them).
AgentTaskStep ==
    \/ prvMQTTAgentLoop_Start
    \/ xQueueReceive_Timeout
    \/ \E h \in Handles : Dispatch_Receive(h)
    \/ \E mqttStatus \in MQTTStatus : MQTT_ProcessLoop_Return(mqttStatus)
    \/ \E h \in Handles, qos \in QoSLevels, id \in PacketIds \cup {0},
          mqttStatus \in MQTTStatus : Dispatch_Publish(h, qos, id, mqttStatus)
    \/ \E h \in Handles, id \in PacketIds, mqttStatus \in MQTTStatus :
          Dispatch_Subscribe(h, id, mqttStatus)
    \/ \E h \in Handles, id \in PacketIds, mqttStatus \in MQTTStatus :
          Dispatch_Unsubscribe(h, id, mqttStatus)
    \/ \E h \in Handles : Dispatch_Stop(h)
    \/ \E h \in Handles : Dispatch_Default(h)
    \/ Dispatch_Fault
    \/ prvMQTTAgentLoop_DeleteQueue
    \/ prvMQTTAgentLoop_Exit

\* The scheduler time-slices between ready tasks of equal priority: the
\* agent task, whenever it can take a step, eventually takes one (every
\* blocking call it makes is bounded: xQueueReceive and xQueueSend by one
\* tick, MQTT_ProcessLoop by MQTT_AGENT_MAX_POLLING_INTERVAL_MS), and the
\* caller of MQTTAgent_Stop wakes from vTaskDelay and tests the flag again.
FairSpecStop ==
    SpecStop /\ WF_vars(AgentTaskStep) /\ WF_vars(MQTTAgent_Stop_Return)

\* The agent task under the same scheduling, with no caller of
\* MQTTAgent_Stop.
FairSpec == Spec /\ WF_vars(AgentTaskStep)

TypeOK ==
    /\ agentInit \in {"none", "ok", "fail"}
    /\ queueState \in {"null", "live", "deleted"}
    /\ \A i \in 1 .. Len(xOperationsQueue) : xOperationsQueue[i] \in Handles
    /\ \A i \in Slots : pendingOperations[i] \in Handles \cup {NULL}
    /\ isAgentRunning \in BOOLEAN
    /\ pc \in {"none", "created", "loop", "processloop", "exiting", "deleted",
               "exited", "assert", "fault"}
    /\ nextOp \in 1 .. MaxOps + 1
    /\ discarded \subseteq Handles

(* ------------------------------- claims ------------------------------- *)

Accepted(h) == ops[h].type # "NONE"

InTable(h) == \E i \in Slots : pendingOperations[i] = h

InQueue(h) == \E i \in 1 .. Len(xOperationsQueue) : xOperationsQueue[i] = h

\* Number of items of the queue q that are the handle h.
CopiesIn(q, h) == Cardinality({ i \in 1 .. Len(q) : q[i] = h })

TableFull == \A i \in Slots : pendingOperations[i] # NULL

\* The operation needs an acknowledgment: QoS>0 Publish, Subscribe, Unsubscribe.
Acknowledgable(h) ==
    \/ ops[h].type \in {"MQTT_OP_SUBSCRIBE", "MQTT_OP_UNSUBSCRIBE"}
    \/ ops[h].type = "MQTT_OP_PUBLISH" /\ ops[h].qos # MQTTQoS0

\* The agent task takes a command from the queue in this step.
PopActs == {"Receive", "Publish", "Subscribe", "Unsubscribe", "Stop",
            "Default", "Fault"}

PopStep == last'.act \in PopActs /\ xOperationsQueue' # xOperationsQueue

\* C1: no operation's completion callback is invoked more than once, and it
\* is invoked only once the agent task has popped the operation and made its
\* protocol-library call.
C1_CompletionAtMostOnceAfterDispatch ==
    \A h \in OpIds :
        /\ ops[h].completions <= 1
        /\ ops[h].completions = 1 => ops[h].dispatched

\* C1 witness: an operation that waited in the table was completed by its
\* acknowledgment.
C1_Witness ==
    /\ last.act = "ProcessEvent"
    /\ last.ok
    /\ last.h \in OpIds
    /\ ops[last.h].completions = 1
    /\ ops[last.h].dispatched

\* C2: when the agent task has exited, every operation MQTTAgent_Enqueue
\* accepted has had its completion invoked, whether the Stop drain removed it
\* from the queue or it still sits in the pending table.
C2_EveryAcceptedOperationCompleted ==
    pc = "exited" => \A h \in OpIds : Accepted(h) => ops[h].completions >= 1

\* C3: dispatching one more acknowledgable operation, submitted with success,
\* while the pending table is full invokes the operation's completion with a
\* TableFull failure, leaves the table unchanged and the agent task running.
C3_TableFullFailsCleanly ==
    [][ \A h \in OpIds :
          ( /\ Popped(h)
            /\ Acknowledgable(h)
            /\ TableFull
            /\ last'.act \in {"Publish", "Subscribe", "Unsubscribe"}
            /\ last'.h = h
            /\ last'.ok )
          => ( /\ ops'[h].completions = 1
               /\ ops'[h].status = "TableFull"
               /\ pendingOperations' = pendingOperations
               /\ pc' = "loop" ) ]_vars

\* C4: a successfully deserialized PUBACK/SUBACK/UNSUBACK whose identifier
\* matches a pending operation removes exactly that operation from the table
\* and invokes its completion once with MQTTSuccess; one whose identifier
\* matches no pending operation (a repeated or unknown one) invokes no
\* completion, leaves the table unchanged and returns pdFALSE.
C4_AckResolvesPendingOperation ==
    [][ \A ptype \in AckTypes, id \in PacketIds :
          MQTTAgent_ProcessEvent(ptype, id, "MQTTSuccess") =>
            LET match == { i \in Slots :
                             /\ pendingOperations[i] # NULL
                             /\ PacketIdentifierOf(pendingOperations[i]) = id }
            IN  IF match # {}
                THEN /\ Cardinality(match) = 1
                     /\ \A i \in match :
                          /\ pendingOperations' =
                                [ pendingOperations EXCEPT ![i] = NULL ]
                          /\ pendingOperations[i] \in OpIds =>
                                ops' = [ ops EXCEPT
                                           ![pendingOperations[i]].completions = @ + 1,
                                           ![pendingOperations[i]].status = "MQTTSuccess" ]
                     /\ last'.ok
                ELSE /\ pendingOperations' = pendingOperations
                     /\ ops' = ops
                     /\ ~last'.ok ]_vars

\* C4 witness: an acknowledgment arrives again for an identifier whose
\* operation was already completed and removed; it is not handled.
C4_Witness ==
    /\ last.act = "ProcessEvent"
    /\ ~last.ok
    /\ last.id # 0
    /\ \E h \in OpIds :
          /\ ops[h].packetIdentifier = last.id
          /\ ops[h].completions = 1
          /\ ops[h].status = "MQTTSuccess"
          /\ Acknowledgable(h)
          /\ ~InTable(h)

\* C5: when an operation B has been dispatched, every operation that
\* MQTTAgent_Enqueue accepted before B has been dispatched already.
C5_EarlierEnqueuedDispatchedFirst ==
    \A a, b \in OpIds :
        (a < b /\ Accepted(a) /\ Accepted(b) /\ ops[b].dispatched)
            => ops[a].dispatched

\* C6: the dispatch of a QoS-0 Publish invokes its completion in that same
\* step with the status MQTT_Publish returned and leaves the pending table
\* unchanged; a QoS-0 Publish is never in the table.
C6_QoS0CompletesInDispatch ==
    /\ [][ \A h \in OpIds, mqttStatus \in MQTTStatus :
             Dispatch_Publish(h, MQTTQoS0, 0, mqttStatus) =>
               /\ ops'[h].completions = ops[h].completions + 1
               /\ ops'[h].status = mqttStatus
               /\ pendingOperations' = pendingOperations ]_vars
    /\ [](\A h \in OpIds :
             (ops[h].type = "MQTT_OP_PUBLISH" /\ ops[h].qos = MQTTQoS0)
                 => ~InTable(h))

\* C6 witness: a QoS-0 Publish was submitted with success and completed by
\* its own dispatch.
C6_Witness ==
    /\ last.act = "Publish"
    /\ last.ok
    /\ last.h \in OpIds
    /\ ops[last.h].qos = MQTTQoS0
    /\ ops[last.h].completions = 1
    /\ ops[last.h].status = "MQTTSuccess"

\* C7: MQTTAgent_Enqueue returns success only when it appended the operation
\* to a queue that had a free slot; otherwise it fails and the queue content
\* is unchanged; the queue never holds more entries than its capacity
\* MQTT_AGENT_MAX_CONCURRENT_OPERATIONS.
C7_EnqueueBounded ==
    /\ [][ \A type \in ProducerTypes, qos \in QoSLevels :
             MQTTAgent_Enqueue(type, qos) =>
               IF last'.ok
               THEN /\ Len(xOperationsQueue) < MQTT_AGENT_MAX_CONCURRENT_OPERATIONS
                    /\ xOperationsQueue' = Append(xOperationsQueue, last'.h)
               ELSE /\ Len(xOperationsQueue) = MQTT_AGENT_MAX_CONCURRENT_OPERATIONS
                    /\ xOperationsQueue' = xOperationsQueue ]_vars
    /\ [](Len(xOperationsQueue) <= MQTT_AGENT_MAX_CONCURRENT_OPERATIONS)

\* C7 witness: a call of MQTTAgent_Enqueue failed on a full queue.
C7_Witness ==
    /\ last.act = "Enqueue"
    /\ ~last.ok
    /\ Len(xOperationsQueue) = MQTT_AGENT_MAX_CONCURRENT_OPERATIONS

\* C8: MQTTAgent_Stop returns only after the agent task has left its loop
\* and exited; never while the task is in its loop or has not yet run.
C8_StopReturnsAfterExit ==
    stopPc = "returned" => pc = "exited"

\* C9: dispatching a Stop command invokes that command's completion, and
\* after a Stop has been dispatched the agent task takes no further command
\* from the queue.
C9_StoppedIsTerminal ==
    /\ [][ \A h \in OpIds : Dispatch_Stop(h) => ops'[h].completions = 1 ]_vars
    /\ [][ stopped => ~PopStep ]_vars

\* C10: when a Stop command is dispatched, every operation that was in the
\* queue ahead of it when it was sent has been dispatched.
C10_StopIsQueueOrdered ==
    /\ \A s \in OpIds :
          (ops[s].type = "MQTT_OP_STOP" /\ ops[s].dispatched)
              => \A a \in ops[s].ahead : ops[a].dispatched
    /\ wild.popped => \A a \in wild.ahead : ops[a].dispatched

\* C10 witness: a Stop operation sent behind another operation has been
\* dispatched, and so has the command MQTTAgent_Stop sent behind one.
C10_Witness ==
    /\ \E s \in OpIds :
          /\ ops[s].type = "MQTT_OP_STOP"
          /\ ops[s].dispatched
          /\ ops[s].ahead # {}
    /\ wild.popped
    /\ wild.ahead # {}

\* C11: the Stop case empties the queue without servicing what it removes:
\* in that step no removed operation changes, and no handle the Stop case
\* removed is ever taken from the queue afterwards, so none of the removed
\* operations is ever dispatched.
C11_StopDrainDiscards ==
    /\ [][ \A h \in Handles :
             Dispatch_Stop(h) =>
               /\ xOperationsQueue' = << >>
               /\ \A d \in OpsIn(Tail(xOperationsQueue)) : ops'[d] = ops[d] ]_vars
    /\ [][ \A d \in discarded' : ~(PopStep /\ last'.h = d) ]_vars
    /\ [](\A d \in discarded \cap OpIds : ~ops[d].dispatched)

\* C11 witness: a Stop case removed an operation of an application task and
\* the receive operation, and the agent task has run on to its exit.
C11_Witness ==
    /\ discarded \cap OpIds # {}
    /\ receiveOP \in discarded
    /\ pc = "exited"

\* C12: a call of MQTTAgent_Stop made while the agent task is running
\* eventually returns, under fair scheduling of the agent task and of the
\* caller.  (Stated leniently: a run in which the agent task has halted in
\* a failed configASSERT or a fault is not held against the claim.)
C12_StopEventuallyReturns ==
    (stopPc = "poll" /\ isAgentRunning) ~> (stopPc = "returned" \/ Halted)

\* C13: from a successful MQTTAgent_Init until a Stop case runs, while the
\* agent task is in its loop, the receive operation is in the queue or is
\* the operation the agent task holds inside MQTT_ProcessLoop.
C13_ReceiveResident ==
    (agentInit = "ok" /\ ~stopped /\ pc \in {"created", "loop", "processloop"})
        => (InQueue(receiveOP) \/ pOperation = receiveOP)

\* C14: the agent task is past its loop (about to delete the queue, or
\* exited) only if a Stop case has run, and a receive that times out on an
\* empty queue before any Stop leaves the task in its loop.
C14_ExitOnlyAfterStop ==
    /\ [](pc \in {"exiting", "deleted", "exited"} => stopped)
    /\ [][ (xQueueReceive_Timeout /\ ~stopped) => pc' = "loop" ]_vars

\* C15: when MQTT_Publish, MQTT_Subscribe or MQTT_Unsubscribe returns a
\* failure, the dispatch invokes the operation's completion in that step
\* with that status, leaves the pending table unchanged and the agent task
\* goes on to its next receive.
C15_SubmissionFailureCompletesNow ==
    [][ \A h \in OpIds, qos \in QoSLevels, id \in PacketIds \cup {0},
           mqttStatus \in MQTTStatus \ {"MQTTSuccess"} :
          ( \/ Dispatch_Publish(h, qos, id, mqttStatus)
            \/ Dispatch_Subscribe(h, id, mqttStatus)
            \/ Dispatch_Unsubscribe(h, id, mqttStatus) )
          => /\ ops'[h].completions = ops[h].completions + 1
             /\ ops'[h].status = mqttStatus
             /\ pendingOperations' = pendingOperations
             /\ pc' = "loop" ]_vars

\* C15 witness: a Subscribe whose submission failed was completed with the
\* failure status while another operation waits in the table.
C15_Witness ==
    /\ last.act = "Subscribe"
    /\ ~last.ok
    /\ last.h \in OpIds
    /\ ops[last.h].completions = 1
    /\ ops[last.h].status = "MQTTSendFailed"
    /\ ~InTable(last.h)
    /\ \E i \in Slots : pendingOperations[i] # NULL
    /\ pc = "loop"

\* C16: an event whose deserialization failed, or whose packet type is not
\* PUBACK, SUBACK or UNSUBACK, invokes no completion, leaves the pending
\* table unchanged and makes MQTTAgent_ProcessEvent return pdFALSE, whatever
\* its packet identifier.
C16_OtherEventsIgnored ==
    [][ \A ptype \in PacketTypes, id \in PacketIds,
           result \in DeserializationResults :
          ( /\ MQTTAgent_ProcessEvent(ptype, id, result)
            /\ (result # "MQTTSuccess" \/ ptype \notin AckTypes) )
          => /\ ops' = ops
             /\ pendingOperations' = pendingOperations
             /\ ~last'.ok
             /\ pc' = pc ]_vars

\* C16 witness: an event was ignored although its packet identifier is that
\* of an operation waiting in the table.
C16_Witness ==
    /\ last.act = "EventIgnored"
    /\ \E h \in OpIds :
          /\ InTable(h)
          /\ ops[h].packetIdentifier = last.id
          /\ ops[h].completions = 0

\* C17: no two occupied slots of the pending table hold operations with the
\* same packet identifier (MQTT_GetPacketId never hands out an identifier
\* that is still awaiting its acknowledgment).
C17_OneSlotPerPacketIdentifier ==
    \A i, j \in Slots :
        ( /\ i # j
          /\ pendingOperations[i] # NULL
          /\ pendingOperations[j] # NULL )
        => PacketIdentifierOf(pendingOperations[i])
              # PacketIdentifierOf(pendingOperations[j])

\* C17 witness: two operations wait in the table, one of them under an
\* identifier that an earlier, acknowledged operation had used.
C17_Witness ==
    \E a, b, c \in OpIds :
        /\ a # b /\ c # a /\ c # b
        /\ InTable(a) /\ InTable(b)
        /\ ~InTable(c)
        /\ ops[c].completions = 1
        /\ ops[c].status = "MQTTSuccess"
        /\ ops[c].packetIdentifier = ops[a].packetIdentifier
        /\ ops[a].packetIdentifier # 0

\* The packet identifier is that of no operation in the table.
NotPending(packetIdentifier) ==
    \A i \in Slots :
        pendingOperations[i] # NULL
            => PacketIdentifierOf(pendingOperations[i]) # packetIdentifier

\* C18: on the pending table as it stands in any reachable state,
\* (1) inserting an operation whose identifier is not pending and then
\*     removing by that identifier returns that operation and gives back
\*     the table as it was;
\* (2) removing by the identifier of an occupied slot returns that slot's
\*     operation, clears that slot only, and the next insertion succeeds;
\* (3) removing by an identifier no occupied slot holds returns NULL and
\*     leaves the table as it was.
C18_RemoveAfterInsert ==
    /\ \A h \in OpIds :
          (~InTable(h) /\ NotPending(PacketIdentifierOf(h)) /\ ~TableFull)
          => LET a == addPendingOperation(pendingOperations, h)
                 r == getPendingOperation(a.table, PacketIdentifierOf(h))
             IN  /\ a.result
                 /\ \E i \in Slots :
                       /\ pendingOperations[i] = NULL
                       /\ a.table = [ pendingOperations EXCEPT ![i] = h ]
                 /\ r.pOperation = h
                 /\ r.table = pendingOperations
    /\ \A i \in Slots :
          pendingOperations[i] # NULL
          => LET r == getPendingOperation(pendingOperations,
                          PacketIdentifierOf(pendingOperations[i]))
             IN  /\ r.pOperation = pendingOperations[i]
                 /\ r.table = [ pendingOperations EXCEPT ![i] = NULL ]
                 /\ \A h \in OpIds :
                       LET a == addPendingOperation(r.table, h)
                       IN  a.result /\ \E j \in Slots : a.table[j] = h
    /\ \A id \in PacketIds \cup {0} :
          NotPending(id)
          => getPendingOperation(pendingOperations, id)
                = [ pOperation |-> NULL, table |-> pendingOperations ]

\* C18 witness: an acknowledgment has just removed an operation from the
\* table; another operation still waits in it, one slot is free, and an
\* operation outside the table carries an identifier that is not pending.
C18_Witness ==
    /\ last.act = "ProcessEvent"
    /\ last.ok
    /\ last.h \in OpIds
    /\ ~InTable(last.h)
    /\ NotPending(PacketIdentifierOf(last.h))
    /\ \E i, j \in Slots :
          pendingOperations[i] # NULL /\ pendingOperations[j] = NULL

\* C19: under fair scheduling of the agent task, every operation
\* MQTTAgent_Enqueue accepted is eventually taken from the queue by the
\* agent task: dispatched, or removed by a Stop case.  (Stated leniently: a
\* run in which the agent task has halted in a failed configASSERT is not
\* held against the claim.)
C19_AcceptedEventuallyPopped ==
    \A h \in OpIds :
        Accepted(h) ~> (ops[h].dispatched \/ h \in discarded \/ Halted)

C21_ReceiveNeverDuplicated ==
    /\ [](CopiesIn(xOperationsQueue, receiveOP)
            + (IF pOperation = receiveOP THEN 1 ELSE 0) <= 1)
    /\ [][ CopiesIn(xOperationsQueue', receiveOP)
              > CopiesIn(xOperationsQueue, receiveOP)
           => \/ /\ last'.act = "Init"
                 /\ agentInit = "none"
                 /\ CopiesIn(xOperationsQueue, receiveOP) = 0
              \/ /\ last'.act = "ProcessLoopReturn"
                 /\ last'.h = receiveOP
                 /\ pOperation = receiveOP
                 /\ pOperation' = NULL ]_vars

\* C21 witness: the agent task has re-enqueued the receive operation behind
\* an operation a producer enqueued meanwhile; the queue is full and holds
\* the receive operation in its last place.
C21_Witness ==
    /\ last.act = "ProcessLoopReturn"
    /\ last.h = receiveOP
    /\ last.ok
    /\ Len(xOperationsQueue) = QueueLength
    /\ Head(xOperationsQueue) \in OpIds
    /\ xOperationsQueue[Len(xOperationsQueue)] = receiveOP
    /\ pOperation = NULL

====
